---- MODULE Spec2Model ----
(***************************************************************************)
(* Model of the UAV strategic deconfliction core                           *)
(* (src/deconfliction/models.py, src/deconfliction/core.py).               *)
(*                                                                         *)
(* Numbers.  Coordinates, thresholds and times are drawn from small        *)
(* integer ranges.  Every quotient the code forms is kept as an exact      *)
(* fraction [n |-> numerator, d |-> denominator] in lowest terms with      *)
(* d > 0, so the model computes over the rationals what the code computes  *)
(* in binary floating point.  A norm is kept as its square (dist2); since  *)
(* norms and thresholds are non-negative, "norm < threshold" is compared   *)
(* as "norm^2 < threshold^2".  On integer inputs the 1e-8 guards of the    *)
(* code reduce to comparisons with zero.                                   *)
(*                                                                         *)
(* Optional values (z, time) are << >> for None and << v >> for a value.   *)
(***************************************************************************)
EXTENDS Integers, Naturals, Sequences, FiniteSets, TLC

VARIABLES
    geomIn,             \* <<p1, p2, p3, p4>>: arguments of _min_distance_segments
    geomOut,            \* result of _min_distance_segments(p1, p2, p3, p4), or NoValue
    geomOutSwapped      \* result of _min_distance_segments(p3, p4, p1, p2), or NoValue

geomVars == <<geomIn, geomOut, geomOutSwapped>>

VARIABLES
    heap,               \* the Waypoint objects created so far; an object is its index
    missions,           \* the Mission objects constructed so far; an object is its index
    lastCtor,           \* the last call of Mission(...): its arguments and its outcome
    system,             \* the DeconflictionSystem object, or NoValue before it is built
    call,               \* the arguments of the last check_mission (or add_conflict) call
    result              \* the ConflictResult returned by the last check_mission call

sysVars == <<heap, missions, lastCtor, system, call, result>>

(***************************************************************************)
(* Bounds                                                                  *)
(***************************************************************************)
MaxCoord == 2           \* planar points have x, y in 0..MaxCoord
MaxCoord3 == 1          \* spatial points have x, y in 0..MaxCoord3 and z in {0, 1}
MaxX == 2               \* waypoints of checked missions have x in 0..MaxX
MaxTime == 2            \* times of checked and constructed missions are in 0..MaxTime
MaxGiven == 3           \* a Mission is constructed from at most MaxGiven waypoints
MaxMissions == 2        \* the caller constructs at most MaxMissions missions
MaxCallerTime == 1      \* the caller's script uses times in 0..MaxCallerTime

(***************************************************************************)
(* Optional values and exact fractions                                     *)
(***************************************************************************)
None == << >>
Some(v) == << v >>
NoValue == [none |-> TRUE]

Abs(i) == IF i < 0 THEN -i ELSE i

RECURSIVE GCD(_, _)
GCD(m, n) == IF n = 0 THEN m ELSE GCD(n, m % n)

\* the fraction n/d (d # 0) in lowest terms with a positive denominator
Frac(n, d) ==
    LET g == GCD(Abs(n), Abs(d))
        sg == IF d < 0 THEN -1 ELSE 1
    IN  [n |-> sg * (n \div g), d |-> sg * (d \div g)]

FromInt(i) == [n |-> i, d |-> 1]
FracLess(r, q) == r.n * q.d < q.n * r.d
FracLeq(r, q) == r.n * q.d <= q.n * r.d
FracMin(r, q) == IF FracLess(q, r) THEN q ELSE r
FracMax(r, q) == IF FracLess(r, q) THEN q ELSE r
LCM(m, n) == (m \div GCD(m, n)) * n

\* as Clamp01, clamped from below only
Clamp01_LowerOnly(r) == FracMax(FromInt(0), r)

\* max(0, min(1, r)), core.py:294, 299, 309, 310, 351, 357
Clamp01(r) == FracMax(FromInt(0), FracMin(FromInt(1), r))

(***************************************************************************)
(* Vectors: integer vectors are sequences of 2 or 3 integers; a point with *)
(* fractional coordinates is [n |-> integer vector, d |-> denominator].    *)
(***************************************************************************)
Dot(u, v) ==
    IF Len(u) = 2 THEN u[1] * v[1] + u[2] * v[2]
    ELSE u[1] * v[1] + u[2] * v[2] + u[3] * v[3]

Sub(u, v) == [i \in 1..Len(u) |-> u[i] - v[i]]

\* p + r * v for integer vectors p, v and a fraction r
PointAt(p, r, v) == [n |-> [i \in 1..Len(p) |-> p[i] * r.d + r.n * v[i]], d |-> r.d]

\* the numerators of pt - qt over the common denominator LCM(pt.d, qt.d)
PointDiff(pt, qt) ==
    LET m == LCM(pt.d, qt.d)
    IN  [n |-> [i \in 1..Len(pt.n) |-> pt.n[i] * (m \div pt.d) - qt.n[i] * (m \div qt.d)],
         d |-> m]

\* np.linalg.norm(pt - qt), squared
Norm2(pt, qt) ==
    LET df == PointDiff(pt, qt)
    IN  Frac(Dot(df.n, df.n), df.d * df.d)

\* np.dot(pt - p, v) / c for a fractional point pt and integer vectors p, v
ProjRatio(pt, p, v, c) ==
    LET df == PointDiff(pt, [n |-> p, d |-> 1])
    IN  Frac(Dot(df.n, v), df.d * c)

(***************************************************************************)
(* DeconflictionSystem._min_distance_segments, core.py:260-317             *)
(***************************************************************************)
MinDistParallel(p1, p2, p3, p4) ==
    LET v1 == Sub(p2, p1)
        v2 == Sub(p4, p3)
        w0 == Sub(p1, p3)
        a  == Dot(v1, v1)
        c  == Dot(v2, v2)
        d  == Dot(v1, w0)
        t0 == Clamp01(IF a > 0 THEN Frac(d, a) ELSE FromInt(0))
        pt1 == PointAt(p1, t0, v1)
        t1 == Clamp01(IF c > 0 THEN ProjRatio(pt1, p3, v2, c) ELSE FromInt(0))
        pt2 == PointAt(p3, t1, v2)
    IN  [dist2 |-> Norm2(pt1, pt2), pt1 |-> pt1, pt2 |-> pt2, s |-> t0, t |-> t1,
         branch |-> "parallel"]

MinDistGeneral(p1, p2, p3, p4) ==
    LET v1 == Sub(p2, p1)
        v2 == Sub(p4, p3)
        w0 == Sub(p1, p3)
        a  == Dot(v1, v1)
        b  == Dot(v1, v2)
        c  == Dot(v2, v2)
        d  == Dot(v1, w0)
        e  == Dot(v2, w0)
        denom == a * c - b * b
        s  == Clamp01(Frac(b * e - c * d, denom))
        t  == Clamp01(Frac(a * e - b * d, denom))
        pt1 == PointAt(p1, s, v1)
        pt2 == PointAt(p3, t, v2)
    IN  [dist2 |-> Norm2(pt1, pt2), pt1 |-> pt1, pt2 |-> pt2, s |-> s, t |-> t,
         branch |-> "general"]

IsParallel(p1, p2, p3, p4) ==
    LET v1 == Sub(p2, p1)
        v2 == Sub(p4, p3)
    IN  Abs(Dot(v1, v1) * Dot(v2, v2) - Dot(v1, v2) * Dot(v1, v2)) = 0

min_distance_segments(p1, p2, p3, p4) ==
    IF IsParallel(p1, p2, p3, p4)
    THEN MinDistParallel(p1, p2, p3, p4)
    ELSE MinDistGeneral(p1, p2, p3, p4)

(***************************************************************************)
(* Reference geometry the claims are stated against: the true minimum of   *)
(* |P - Q|^2 over P on segment p1-p2 and Q on segment p3-p4.  The minimum  *)
(* of this convex quadratic over the unit square of parameters is attained *)
(* at an interior stationary point or on an edge of the square, where one  *)
(* of the points is a segment end.                                         *)
(***************************************************************************)
\* squared distance from point p to segment q1-q2, and the closest point
ClosestOnSegment(p, q1, q2) ==
    LET v == Sub(q2, q1)
        c == Dot(v, v)
        r == IF c = 0 THEN FromInt(0) ELSE Clamp01(Frac(Dot(Sub(p, q1), v), c))
    IN  PointAt(q1, r, v)

PointSegDist2(p, q1, q2) == Norm2([n |-> p, d |-> 1], ClosestOnSegment(p, q1, q2))

\* the stationary point of the two carrying lines lies inside both segments
HasInteriorStationary(p1, p2, p3, p4) ==
    LET v1 == Sub(p2, p1)
        v2 == Sub(p4, p3)
        w0 == Sub(p1, p3)
        a  == Dot(v1, v1)
        b  == Dot(v1, v2)
        c  == Dot(v2, v2)
        d  == Dot(v1, w0)
        e  == Dot(v2, w0)
        dn == a * c - b * b
    IN  /\ dn > 0
        /\ 0 <= b * e - c * d /\ b * e - c * d <= dn
        /\ 0 <= a * e - b * d /\ a * e - b * d <= dn

InteriorDist2(p1, p2, p3, p4) ==
    LET v1 == Sub(p2, p1)
        v2 == Sub(p4, p3)
        w0 == Sub(p1, p3)
        a  == Dot(v1, v1)
        b  == Dot(v1, v2)
        c  == Dot(v2, v2)
        d  == Dot(v1, w0)
        e  == Dot(v2, w0)
        dn == a * c - b * b
    IN  Norm2(PointAt(p1, Frac(b * e - c * d, dn), v1),
              PointAt(p3, Frac(a * e - b * d, dn), v2))

TrueMinDist2(p1, p2, p3, p4) ==
    LET ends == FracMin(FracMin(PointSegDist2(p1, p3, p4), PointSegDist2(p2, p3, p4)),
                        FracMin(PointSegDist2(p3, p1, p2), PointSegDist2(p4, p1, p2)))
    IN  IF HasInteriorStationary(p1, p2, p3, p4)
        THEN FracMin(ends, InteriorDist2(p1, p2, p3, p4))
        ELSE ends

(***************************************************************************)
(* models.py: Waypoint, Mission, ConflictResult.                           *)
(* A Waypoint object is [x, y, z, time]; a Mission object is               *)
(* [waypoints, start_time, end_time, drone_id] with waypoints a sequence   *)
(* of Waypoint objects (indices into the heap).  Times are integers, in    *)
(* units of the resolution of datetime (microseconds).                     *)
(***************************************************************************)
Waypoint(x, y, z, time) == [x |-> x, y |-> y, z |-> z, time |-> time]

\* as coordinates, with z returned whenever the waypoint has one
coordinates_ZWhenPresent(wp, include_z) ==
    IF wp.z # None THEN <<wp.x, wp.y, wp.z[1]>> ELSE <<wp.x, wp.y>>

\* Waypoint.coordinates, models.py:21-25
coordinates(wp, include_z) ==
    IF include_z /\ wp.z # None THEN <<wp.x, wp.y, wp.z[1]>> ELSE <<wp.x, wp.y>>

\* timedelta(seconds = r): the fraction r of ticks rounded to a whole tick,
\* ties to the even tick (r >= 0)
RoundHalfEven(r) ==
    LET q   == r.n \div r.d
        rem == r.n % r.d
    IN  IF 2 * rem < r.d THEN q
        ELSE IF 2 * rem > r.d THEN q + 1
        ELSE IF q % 2 = 0 THEN q ELSE q + 1

\* as AssignedTime, with the window divided by the number of waypoints
AssignedTime_ByCount(n, start_time, end_time, i) ==
    LET total_duration == end_time - start_time
    IN  IF i = 0 THEN start_time
        ELSE start_time + RoundHalfEven(Frac(total_duration * i, n))

\* the time given to the waypoint at position i (0-based), models.py:56-66
AssignedTime(n, start_time, end_time, i) ==
    LET total_duration == end_time - start_time
        intervals == IF n > 1 THEN n - 1 ELSE 1
    IN  IF i = 0 THEN start_time
        ELSE start_time + RoundHalfEven(Frac(total_duration * i, intervals))

\* Mission._assign_waypoint_times, models.py:54-66: the heap after the
\* assignments to positions 0..k-1 of the list wps, made in that order
RECURSIVE AssignUpTo(_, _, _, _, _)
AssignUpTo(h, wps, start_time, end_time, k) ==
    IF k = 0 THEN h
    ELSE LET before == AssignUpTo(h, wps, start_time, end_time, k - 1)
         IN  [before EXCEPT ![wps[k]].time =
                 Some(AssignedTime(Len(wps), start_time, end_time, k - 1))]

\* as assign_waypoint_times, with the times the caller supplied kept
assign_waypoint_times_OnlyMissing(h, wps, start_time, end_time) ==
    [j \in 1..Len(h) |->
        IF h[j].time = None /\ \E k \in 1..Len(wps) : wps[k] = j
        THEN [h[j] EXCEPT !.time =
                 Some(AssignedTime(Len(wps), start_time, end_time,
                                   (CHOOSE k \in 1..Len(wps) : wps[k] = j) - 1))]
        ELSE h[j]]

assign_waypoint_times(h, wps, start_time, end_time) ==
    AssignUpTo(h, wps, start_time, end_time, Len(wps))

EmptyPath == "ValueError: Mission must have at least one waypoint"
InvalidTimeWindow == "ValueError: Mission end time must be after start time"
Constructed == "constructed"

\* as PostInitOutcome, with equal start and end times accepted
PostInitOutcome_StrictOnly(wps, start_time, end_time) ==
    IF wps = << >> THEN EmptyPath
    ELSE IF start_time > end_time THEN InvalidTimeWindow
    ELSE Constructed

\* the outcome of Mission.__post_init__, models.py:42-48
PostInitOutcome(wps, start_time, end_time) ==
    IF wps = << >> THEN EmptyPath
    ELSE IF start_time >= end_time THEN InvalidTimeWindow
    ELSE Constructed

\* the heap after Mission.__post_init__, models.py:42-52
PostInitHeap(h, wps, start_time, end_time) ==
    IF PostInitOutcome(wps, start_time, end_time) # Constructed THEN h
    ELSE IF \E i \in 1..Len(wps) : h[wps[i]].time = None
         THEN assign_waypoint_times(h, wps, start_time, end_time)
         ELSE h

\* as get_path_segments, with a lone waypoint taken as a segment of no length
get_path_segments_LoneSegment(wpvals) ==
    IF Len(wpvals) = 1 THEN << <<wpvals[1], wpvals[1]>> >>
    ELSE [i \in 1..(IF Len(wpvals) = 0 THEN 0 ELSE Len(wpvals) - 1)
             |-> <<wpvals[i], wpvals[i + 1]>>]

\* Mission.get_path_segments, models.py:68-71, as pairs of Waypoint values
get_path_segments(wpvals) == [i \in 1..(IF Len(wpvals) = 0 THEN 0 ELSE Len(wpvals) - 1)
                                |-> <<wpvals[i], wpvals[i + 1]>>]

\* ConflictResult(), models.py:78-82
NewConflictResult == [is_clear |-> TRUE, conflict_details |-> << >>]

\* as add_conflict, with a record equal to one already held merged into it
add_conflict_Merging(res, location, time, conflicting_drone_id, distance2, min_safe_distance) ==
    LET record == [location |-> location,
                   time |-> time,
                   conflicting_drone_id |-> conflicting_drone_id,
                   actual_distance2 |-> distance2,
                   min_safe_distance |-> min_safe_distance]
    IN  [is_clear |-> FALSE,
         conflict_details |->
            IF \E k \in 1..Len(res.conflict_details) : res.conflict_details[k] = record
            THEN res.conflict_details
            ELSE Append(res.conflict_details, record)]

\* ConflictResult.add_conflict, models.py:84-97.  actual_distance2 is the
\* square of the record's actual_distance.
add_conflict(res, location, time, conflicting_drone_id, distance2, min_safe_distance) ==
    [is_clear |-> FALSE,
     conflict_details |-> Append(res.conflict_details,
        [location |-> location,
         time |-> time,
         conflicting_drone_id |-> conflicting_drone_id,
         actual_distance2 |-> distance2,
         min_safe_distance |-> min_safe_distance])]

(***************************************************************************)
(* core.py: DeconflictionSystem.  The operators below work on Mission      *)
(* values whose waypoints have been read from the heap (a sequence of      *)
(* Waypoint values).                                                       *)
(***************************************************************************)
\* as _time_windows_overlap, with windows that only touch taken as overlapping
time_windows_overlap_Inclusive(mission1, mission2) ==
    /\ mission1.start_time <= mission2.end_time
    /\ mission2.start_time <= mission1.end_time

\* DeconflictionSystem._time_windows_overlap, core.py:172-175
time_windows_overlap(mission1, mission2) ==
    /\ mission1.start_time < mission2.end_time
    /\ mission2.start_time < mission1.end_time

\* as segment_times_overlap, with intervals that touch taken as overlapping
segment_times_overlap_Inclusive(start1, end1, start2, end2) ==
    IF \E wp \in {start1, end1, start2, end2} : wp.time = None
    THEN TRUE
    ELSE /\ start1.time[1] <= end2.time[1]
         /\ start2.time[1] <= end1.time[1]

\* DeconflictionSystem._segment_times_overlap, core.py:208-217
segment_times_overlap(start1, end1, start2, end2) ==
    IF \E wp \in {start1, end1, start2, end2} : wp.time = None
    THEN TRUE
    ELSE /\ start1.time[1] < end2.time[1]
         /\ start2.time[1] < end1.time[1]

\* DeconflictionSystem._interpolate_datetime, core.py:366-373
interpolate_datetime(start_time, end_time, ratio) ==
    LET delta == end_time - start_time
        seconds == Frac(delta * ratio.n, ratio.d)
    IN  IF seconds.n >= 0 THEN start_time + RoundHalfEven(seconds)
        ELSE start_time - RoundHalfEven([n |-> -seconds.n, d |-> seconds.d])

\* the first two coordinates of a fractional point: point[:2]
Planar(pt) == [n |-> <<pt.n[1], pt.n[2]>>, d |-> pt.d]

\* the position ratio of a closest point along its segment, core.py:340-357
PositionRatio(start, end, point) ==
    LET v == Sub(coordinates(end, FALSE), coordinates(start, FALSE))
        dist2 == Dot(v, v)
    IN  IF dist2 = 0 THEN FromInt(0)
        ELSE Clamp01(ProjRatio(Planar(point), coordinates(start, FALSE), v, dist2))

Min(i, j) == IF j < i THEN j ELSE i

\* DeconflictionSystem._interpolate_time, core.py:319-364; now is the value
\* datetime.now() returns when a start time is missing
interpolate_time(start1, end1, start2, end2, point1, point2, now) ==
    IF \E wp \in {start1, end1, start2, end2} : wp.time = None
    THEN Min(IF start1.time # None THEN start1.time[1] ELSE now,
             IF start2.time # None THEN start2.time[1] ELSE now)
    ELSE Min(interpolate_datetime(start1.time[1], end1.time[1],
                                  PositionRatio(start1, end1, point1)),
             interpolate_datetime(start2.time[1], end2.time[1],
                                  PositionRatio(start2, end2, point2)))

\* as IncludeZ, with altitude left out of every comparison
IncludeZ_Never(start1, end1, start2, end2) == FALSE

\* core.py:235
IncludeZ(start1, end1, start2, end2) ==
    \A wp \in {start1, end1, start2, end2} : wp.z # None

\* the distance computed for a segment pair, core.py:234-243
SegmentDistance(start1, end1, start2, end2) ==
    LET include_z == IncludeZ(start1, end1, start2, end2)
    IN  min_distance_segments(coordinates(start1, include_z), coordinates(end1, include_z),
                              coordinates(start2, include_z), coordinates(end2, include_z))

\* as BelowThreshold, with a distance equal to the threshold taken as a conflict
BelowThreshold_Inclusive(dist2, min_safe_distance) ==
    FracLeq(dist2, FromInt(min_safe_distance * min_safe_distance))

\* min_dist < self.min_safe_distance, core.py:246
BelowThreshold(dist2, min_safe_distance) ==
    FracLess(dist2, FromInt(min_safe_distance * min_safe_distance))

\* as check_segment_conflict, with the location taken from the closest point
\* of the second segment
check_segment_conflict_SecondPoint(start1, end1, start2, end2, min_safe_distance, now) ==
    LET md == SegmentDistance(start1, end1, start2, end2)
    IN  IF BelowThreshold(md.dist2, min_safe_distance)
        THEN << [location |-> Planar(md.pt2),
                 time |-> interpolate_time(start1, end1, start2, end2, md.pt1, md.pt2, now),
                 distance2 |-> md.dist2] >>
        ELSE << >>

\* DeconflictionSystem._check_segment_conflict, core.py:219-258: a sequence
\* holding the conflict, or the empty sequence for None
check_segment_conflict(start1, end1, start2, end2, min_safe_distance, now) ==
    LET md == SegmentDistance(start1, end1, start2, end2)
    IN  IF BelowThreshold(md.dist2, min_safe_distance)
        THEN << [location |-> Planar(md.pt1),
                 time |-> interpolate_time(start1, end1, start2, end2, md.pt1, md.pt2, now),
                 distance2 |-> md.dist2] >>
        ELSE << >>

\* as PairConflict, with a conflict for every pair overlapping in time
PairConflict_AnyDistance(seg1, seg2, min_safe_distance, now) ==
    IF ~segment_times_overlap(seg1[1], seg1[2], seg2[1], seg2[2])
    THEN << >>
    ELSE LET md == SegmentDistance(seg1[1], seg1[2], seg2[1], seg2[2])
         IN  << [location |-> Planar(md.pt1),
                 time |-> interpolate_time(seg1[1], seg1[2], seg2[1], seg2[2],
                                           md.pt1, md.pt2, now),
                 distance2 |-> md.dist2] >>

\* the test of one segment pair in the loops of core.py:193-204
PairConflict(seg1, seg2, min_safe_distance, now) ==
    IF ~segment_times_overlap(seg1[1], seg1[2], seg2[1], seg2[2])
    THEN << >>
    ELSE check_segment_conflict(seg1[1], seg1[2], seg2[1], seg2[2], min_safe_distance, now)

\* DeconflictionSystem._check_path_conflicts, core.py:177-206: the conflicts
\* of the first k segment pairs, in the order of the nested loops
RECURSIVE PathConflictsUpTo(_, _, _, _, _)
PathConflictsUpTo(segments1, segments2, min_safe_distance, now, k) ==
    IF k = 0 THEN << >>
    ELSE LET i == ((k - 1) \div Len(segments2)) + 1
             j == ((k - 1) % Len(segments2)) + 1
         IN  PathConflictsUpTo(segments1, segments2, min_safe_distance, now, k - 1)
                 \o PairConflict(segments1[i], segments2[j], min_safe_distance, now)

\* as check_path_conflicts, returning at the first conflict found
check_path_conflicts_FirstOnly(mission1, mission2, min_safe_distance, now) ==
    LET segments1 == get_path_segments(mission1.waypoints)
        segments2 == get_path_segments(mission2.waypoints)
        found == PathConflictsUpTo(segments1, segments2, min_safe_distance, now,
                                   Len(segments1) * Len(segments2))
    IN  IF found = << >> THEN << >> ELSE << Head(found) >>

check_path_conflicts(mission1, mission2, min_safe_distance, now) ==
    LET segments1 == get_path_segments(mission1.waypoints)
        segments2 == get_path_segments(mission2.waypoints)
    IN  PathConflictsUpTo(segments1, segments2, min_safe_distance, now,
                          Len(segments1) * Len(segments2))

\* as FlightConflicts, without the skip of the candidate's own drone
FlightConflicts_NoSelfSkip(mission, simulated_flight, min_safe_distance, now) ==
    IF ~time_windows_overlap(mission, simulated_flight) THEN << >>
    ELSE check_path_conflicts(mission, simulated_flight, min_safe_distance, now)

\* the conflicts one simulated flight contributes, core.py:40-49
FlightConflicts(mission, simulated_flight, min_safe_distance, now) ==
    IF simulated_flight.drone_id = mission.drone_id THEN << >>
    ELSE IF ~time_windows_overlap(mission, simulated_flight) THEN << >>
    ELSE check_path_conflicts(mission, simulated_flight, min_safe_distance, now)

\* core.py:52-59
RECURSIVE AddConflicts(_, _, _, _)
AddConflicts(res, conflicts, drone_id, min_safe_distance) ==
    IF conflicts = << >> THEN res
    ELSE AddConflicts(add_conflict(res, Head(conflicts).location, Head(conflicts).time,
                                   drone_id, Head(conflicts).distance2, min_safe_distance),
                      Tail(conflicts), drone_id, min_safe_distance)

\* DeconflictionSystem.check_mission, core.py:27-61: the result after the
\* first k simulated flights
RECURSIVE CheckUpTo(_, _, _, _, _)
CheckUpTo(mission, simulated_flights, min_safe_distance, now, k) ==
    IF k = 0 THEN NewConflictResult
    ELSE AddConflicts(CheckUpTo(mission, simulated_flights, min_safe_distance, now, k - 1),
                      FlightConflicts(mission, simulated_flights[k], min_safe_distance, now),
                      simulated_flights[k].drone_id, min_safe_distance)

\* as check_mission, with one ConflictResult object kept by the system and
\* used by every call
check_mission_ReusedResult(mission, simulated_flights, min_safe_distance, now) ==
    LET found == CheckUpTo(mission, simulated_flights, min_safe_distance, now,
                           Len(simulated_flights))
    IN  IF result = NoValue THEN found
        ELSE [is_clear |-> result.is_clear /\ found.is_clear,
              conflict_details |-> result.conflict_details \o found.conflict_details]

check_mission(mission, simulated_flights, min_safe_distance, now) ==
    CheckUpTo(mission, simulated_flights, min_safe_distance, now, Len(simulated_flights))

(***************************************************************************)
(* Exceptions.  The arithmetic of a check is numpy arithmetic on arrays    *)
(* and floats: a division by zero gives inf or nan with a warning and no   *)
(* exception, and every division of the code is guarded; subtracting       *)
(* arrays of 2 and of 3 coordinates raises ValueError (the shapes cannot   *)
(* be broadcast).  Comparisons and arithmetic of times are reached only    *)
(* with times that are present (core.py:214, 333).                         *)
(***************************************************************************)
\* p2 - p1, p4 - p3 or p1 - p3 raises, core.py:237-243, 276-278
ShapeMismatch(start1, end1, start2, end2) ==
    LET include_z == IncludeZ(start1, end1, start2, end2)
    IN  \/ Len(coordinates(end1, include_z)) # Len(coordinates(start1, include_z))
        \/ Len(coordinates(end2, include_z)) # Len(coordinates(start2, include_z))
        \/ Len(coordinates(start1, include_z)) # Len(coordinates(start2, include_z))

\* end.coordinates() - start.coordinates() or point[:2] - start.coordinates()
\* raises, core.py:340-356
RatioMismatch(start, end) ==
    \/ Len(coordinates(end, FALSE)) # Len(coordinates(start, FALSE))
    \/ Len(coordinates(start, FALSE)) # 2

\* the test of one segment pair raises, core.py:193-204
PairRaises(seg1, seg2, min_safe_distance) ==
    /\ segment_times_overlap(seg1[1], seg1[2], seg2[1], seg2[2])
    /\ \/ ShapeMismatch(seg1[1], seg1[2], seg2[1], seg2[2])
       \/ /\ BelowThreshold(SegmentDistance(seg1[1], seg1[2], seg2[1], seg2[2]).dist2,
                             min_safe_distance)
          /\ \A wp \in {seg1[1], seg1[2], seg2[1], seg2[2]} : wp.time # None
          /\ RatioMismatch(seg1[1], seg1[2]) \/ RatioMismatch(seg2[1], seg2[2])

\* check_mission raises instead of returning, core.py:27-61
check_mission_raises(mission, simulated_flights, min_safe_distance) ==
    \E k \in 1..Len(simulated_flights) :
        /\ simulated_flights[k].drone_id # mission.drone_id
        /\ time_windows_overlap(mission, simulated_flights[k])
        /\ \E i \in 1..Len(get_path_segments(mission.waypoints)),
              j \in 1..Len(get_path_segments(simulated_flights[k].waypoints)) :
              PairRaises(get_path_segments(mission.waypoints)[i],
                         get_path_segments(simulated_flights[k].waypoints)[j],
                         min_safe_distance)

Raised == [raised |-> "ValueError"]

\* what a call of check_mission gives its caller
check_mission_outcome(mission, simulated_flights, min_safe_distance, now) ==
    IF check_mission_raises(mission, simulated_flights, min_safe_distance)
    THEN Raised
    ELSE check_mission(mission, simulated_flights, min_safe_distance, now)

(***************************************************************************)
(* The caller's operations on the objects of the program.                  *)
(***************************************************************************)
\* a Mission object with its waypoints read from the heap
ReadMission(h, m) ==
    [waypoints |-> [i \in 1..Len(m.waypoints) |-> h[m.waypoints[i]]],
     start_time |-> m.start_time,
     end_time |-> m.end_time,
     drone_id |-> m.drone_id]

\* the state before any object exists
NoSystem ==
    /\ heap = << >>
    /\ missions = << >>
    /\ lastCtor = NoValue
    /\ system = NoValue
    /\ call = NoValue
    /\ result = NoValue

NoGeom ==
    /\ geomIn = NoValue
    /\ geomOut = NoValue
    /\ geomOutSwapped = NoValue

\* Mission(waypoints = [the Waypoints given, newly created], start_time,
\* end_time, drone_id), models.py:34-52.  The Waypoint objects of a call that
\* raises are not kept by anything; lastCtor.after holds them as the call
\* left them.
NewMission(given, start_time, end_time, drone_id) ==
    LET wps     == [i \in 1..Len(given) |-> Len(heap) + i]
        before  == heap \o given
        outcome == PostInitOutcome(wps, start_time, end_time)
        after   == PostInitHeap(before, wps, start_time, end_time)
    IN  /\ lastCtor' = [given |-> given, start_time |-> start_time, end_time |-> end_time,
                        drone_id |-> drone_id, outcome |-> outcome,
                        after |-> [i \in 1..Len(given) |-> after[wps[i]]]]
        /\ IF outcome = Constructed
           THEN /\ heap' = after
                /\ missions' = Append(missions,
                      [waypoints |-> wps, start_time |-> start_time,
                       end_time |-> end_time, drone_id |-> drone_id])
           ELSE UNCHANGED <<heap, missions>>
        /\ UNCHANGED <<system, call, result>>
        /\ UNCHANGED geomVars

\* Mission(waypoints = [Waypoint objects the caller already holds, then the
\* Waypoints given, newly created], start_time, end_time, drone_id),
\* models.py:34-52: the list holds references to the caller's objects
NewMissionSharing(shared, given, start_time, end_time, drone_id) ==
    LET wps     == shared \o [i \in 1..Len(given) |-> Len(heap) + i]
        before  == heap \o given
        outcome == PostInitOutcome(wps, start_time, end_time)
        after   == PostInitHeap(before, wps, start_time, end_time)
    IN  /\ lastCtor' = [given |-> [i \in 1..Len(wps) |-> before[wps[i]]],
                        start_time |-> start_time, end_time |-> end_time,
                        drone_id |-> drone_id, outcome |-> outcome,
                        after |-> [i \in 1..Len(wps) |-> after[wps[i]]]]
        /\ IF outcome = Constructed
           THEN /\ heap' = after
                /\ missions' = Append(missions,
                      [waypoints |-> wps, start_time |-> start_time,
                       end_time |-> end_time, drone_id |-> drone_id])
           ELSE UNCHANGED <<heap, missions>>
        /\ UNCHANGED <<system, call, result>>
        /\ UNCHANGED geomVars

\* mission.start_time = t: Mission is a dataclass that is not frozen,
\* models.py:34-40
SetStartTime(m, t) ==
    /\ missions' = [missions EXCEPT ![m].start_time = t]
    /\ UNCHANGED <<heap, lastCtor, system, call, result>>
    /\ UNCHANGED geomVars

\* mission.end_time = t
SetEndTime(m, t) ==
    /\ missions' = [missions EXCEPT ![m].end_time = t]
    /\ UNCHANGED <<heap, lastCtor, system, call, result>>
    /\ UNCHANGED geomVars

\* mission.waypoints = wps
SetWaypoints(m, wps) ==
    /\ missions' = [missions EXCEPT ![m].waypoints = wps]
    /\ UNCHANGED <<heap, lastCtor, system, call, result>>
    /\ UNCHANGED geomVars

\* DeconflictionSystem(simulated_flights, min_safe_distance), core.py:16-25
NewSystem(simulated_flights, min_safe_distance) ==
    /\ system' = [simulated_flights |-> simulated_flights,
                  min_safe_distance |-> min_safe_distance]
    /\ UNCHANGED <<heap, missions, lastCtor, call, result>>
    /\ UNCHANGED geomVars

\* the Mission values a call of check_mission(missions[m]) reads
Candidate(m) == ReadMission(heap, missions[m])
Flights == [k \in 1..Len(system.simulated_flights) |->
               ReadMission(heap, missions[system.simulated_flights[k]])]

\* the values datetime.now() can return in a check; it is called only when a
\* waypoint lacks a time, core.py:333-337
NowValues(times) ==
    IF \E i \in 1..Len(heap) : heap[i].time = None THEN times ELSE {0}

\* as CheckMission, with the references of the candidate's own drone taken
\* out of the system's list during the check
CheckMission_DroppingOwn(m, now) ==
    /\ system # NoValue
    /\ call' = [mission |-> m]
    /\ result' = check_mission_outcome(Candidate(m), Flights, system.min_safe_distance, now)
    /\ system' = [system EXCEPT !.simulated_flights =
                     SelectSeq(system.simulated_flights,
                               LAMBDA k : missions[k].drone_id # missions[m].drone_id)]
    /\ UNCHANGED <<heap, missions, lastCtor>>
    /\ UNCHANGED geomVars

\* system.check_mission(missions[m]), core.py:27-61
CheckMission(m, now) ==
    /\ system # NoValue
    /\ call' = [mission |-> m]
    /\ result' = check_mission_outcome(Candidate(m), Flights, system.min_safe_distance, now)
    /\ UNCHANGED <<heap, missions, lastCtor, system>>
    /\ UNCHANGED geomVars

(***************************************************************************)
(* Specification SpecGeom: _min_distance_segments as a pure function.      *)
(***************************************************************************)
Points2 == {<<x, y>> : x \in 0..MaxCoord, y \in 0..MaxCoord}
Points3 == {<<x, y, z>> : x \in 0..MaxCoord3, y \in 0..MaxCoord3, z \in {0, 1}}

InitGeom ==
    /\ geomIn \in (Points2 \X Points2 \X Points2 \X Points2)
                   \cup (Points3 \X Points3 \X Points3 \X Points3)
    /\ geomOut = NoValue
    /\ geomOutSwapped = NoValue
    /\ NoSystem

CallMinDistance ==
    /\ geomOut = NoValue
    /\ geomOut' = min_distance_segments(geomIn[1], geomIn[2], geomIn[3], geomIn[4])
    /\ UNCHANGED <<geomIn, geomOutSwapped>>
    /\ UNCHANGED sysVars

CallMinDistanceSwapped ==
    /\ geomOutSwapped = NoValue
    /\ geomOutSwapped' = min_distance_segments(geomIn[3], geomIn[4], geomIn[1], geomIn[2])
    /\ UNCHANGED <<geomIn, geomOut>>
    /\ UNCHANGED sysVars

NextGeom == CallMinDistance \/ CallMinDistanceSwapped

vars == <<geomIn, geomOut, geomOutSwapped, heap, missions, lastCtor, system, call, result>>

SpecGeom == InitGeom /\ [][NextGeom]_vars

(***************************************************************************)
(* Specification SpecCtor: the construction of one Mission from drawn      *)
(* arguments.                                                              *)
(***************************************************************************)
Times == 0..MaxTime
OptTimes == {None} \cup {Some(t) : t \in Times}

GivenWaypoints == {Waypoint(x, 0, None, time) : x \in 0..1, time \in OptTimes}

GivenLists == UNION {[1..n -> GivenWaypoints] : n \in 0..MaxGiven}

\* the arguments of the constructor call are held in lastCtor until the call
InitCtor ==
    /\ \E given \in GivenLists, start_time \in Times, end_time \in Times :
          lastCtor = [given |-> given, start_time |-> start_time, end_time |-> end_time,
                      drone_id |-> "drone1", outcome |-> "pending", after |-> given]
    /\ heap = << >>
    /\ missions = << >>
    /\ system = NoValue
    /\ call = NoValue
    /\ result = NoValue
    /\ NoGeom

Construct ==
    /\ lastCtor.outcome = "pending"
    /\ NewMission(lastCtor.given, lastCtor.start_time, lastCtor.end_time, lastCtor.drone_id)

NextCtor == Construct

SpecCtor == InitCtor /\ [][NextCtor]_vars

(***************************************************************************)
(* Specification SpecResult: a ConflictResult() is created and add_conflict *)
(* is called on it repeatedly; call holds the arguments of the last call.  *)
(***************************************************************************)
MaxRecords == 3         \* add_conflict is called at most MaxRecords times

InitResult ==
    /\ result = NewConflictResult
    /\ heap = << >>
    /\ missions = << >>
    /\ lastCtor = NoValue
    /\ system = NoValue
    /\ call = NoValue
    /\ NoGeom

AddConflict ==
    /\ Len(result.conflict_details) < MaxRecords
    /\ \E location \in {<<0, 0>>, <<1, 0>>}, time \in {0, 1},
          conflicting_drone_id \in {"drone2", "drone3"} :
          /\ call' = [location |-> location, time |-> time,
                      conflicting_drone_id |-> conflicting_drone_id,
                      distance2 |-> FromInt(0), min_safe_distance |-> 1]
          /\ result' = add_conflict(result, location, time, conflicting_drone_id,
                                    FromInt(0), 1)
    /\ UNCHANGED <<heap, missions, lastCtor, system, geomVars>>

NextResult == AddConflict

SpecResult == InitResult /\ [][NextResult]_vars

(***************************************************************************)
(* Specification SpecResults: ConflictResult objects with their record     *)
(* lists as objects of their own.  result holds the ConflictResult objects *)
(* created so far (an object is its index, its conflict_details the index  *)
(* of a list) and the list objects; call holds the object the last         *)
(* operation created or appended to.  Results are created by the caller    *)
(* and by check_mission calls on a system of two missions flying the same  *)
(* segment.                                                                *)
(***************************************************************************)
MaxResults == 2         \* at most MaxResults ConflictResult objects are created

\* as NewResultObject, with one list object shared by all results
NewResultObject_SharedList(store) ==
    IF store.lists = << >>
    THEN [objects |-> Append(store.objects, [is_clear |-> TRUE, conflict_details |-> 1]),
          lists |-> << << >> >>]
    ELSE [objects |-> Append(store.objects, [is_clear |-> TRUE, conflict_details |-> 1]),
          lists |-> store.lists]

\* ConflictResult(): conflict_details = field(default_factory = list),
\* models.py:78-82
NewResultObject(store) ==
    [objects |-> Append(store.objects,
                        [is_clear |-> TRUE, conflict_details |-> Len(store.lists) + 1]),
     lists |-> Append(store.lists, << >>)]

\* the ConflictResult value of object r
ResultValue(store, r) ==
    [is_clear |-> store.objects[r].is_clear,
     conflict_details |-> store.lists[store.objects[r].conflict_details]]

\* r.add_conflict(...), models.py:84-97
AddConflictTo(store, r, location, time, conflicting_drone_id, distance2, min_safe_distance) ==
    LET after == add_conflict(ResultValue(store, r), location, time, conflicting_drone_id,
                              distance2, min_safe_distance)
    IN  [objects |-> [store.objects EXCEPT ![r].is_clear = after.is_clear],
         lists |-> [store.lists EXCEPT ![store.objects[r].conflict_details] =
                                           after.conflict_details]]

\* core.py:52-59 on the object r
RECURSIVE AddConflictsTo(_, _, _)
AddConflictsTo(store, r, records) ==
    IF records = << >> THEN store
    ELSE AddConflictsTo(AddConflictTo(store, r, Head(records).location, Head(records).time,
                                      Head(records).conflicting_drone_id,
                                      Head(records).actual_distance2,
                                      Head(records).min_safe_distance),
                        r, Tail(records))

InitResults ==
    /\ result = [objects |-> << >>, lists |-> << >>]
    /\ heap = << Waypoint(0, 0, None, Some(0)), Waypoint(1, 0, None, Some(1)),
                 Waypoint(0, 0, None, Some(0)), Waypoint(1, 0, None, Some(1)) >>
    /\ missions = << [waypoints |-> <<1, 2>>, start_time |-> 0, end_time |-> 1,
                      drone_id |-> "drone1"],
                     [waypoints |-> <<3, 4>>, start_time |-> 0, end_time |-> 1,
                      drone_id |-> "drone2"] >>
    /\ system = [simulated_flights |-> <<1, 2>>, min_safe_distance |-> 1]
    /\ lastCtor = NoValue
    /\ call = NoValue
    /\ NoGeom

\* res = ConflictResult() by the caller
CreateResult ==
    /\ Len(result.objects) < MaxResults
    /\ result' = NewResultObject(result)
    /\ call' = [target |-> Len(result.objects) + 1]
    /\ UNCHANGED <<heap, missions, lastCtor, system, geomVars>>

\* res.add_conflict(...) by the caller on a result it holds
AppendToResult ==
    \E r \in 1..Len(result.objects), conflicting_drone_id \in {"drone2", "drone3"} :
        /\ Len(ResultValue(result, r).conflict_details) < MaxRecords
        /\ result' = AddConflictTo(result, r, <<0, 0>>, 0, conflicting_drone_id,
                                   FromInt(0), 1)
        /\ call' = [target |-> r]
        /\ UNCHANGED <<heap, missions, lastCtor, system, geomVars>>

\* res = system.check_mission(missions[m]), core.py:37-61
ReturnResult ==
    \E m \in 1..Len(missions) :
        /\ Len(result.objects) < MaxResults
        /\ result' = AddConflictsTo(NewResultObject(result), Len(result.objects) + 1,
                        check_mission(Candidate(m), Flights, system.min_safe_distance,
                                      0).conflict_details)
        /\ call' = [target |-> Len(result.objects) + 1]
        /\ UNCHANGED <<heap, missions, lastCtor, system, geomVars>>

NextResults == CreateResult \/ AppendToResult \/ ReturnResult

SpecResults == InitResults /\ [][NextResults]_vars

(***************************************************************************)
(* Specification SpecCheck: check_mission on drawn, validly constructed    *)
(* missions whose waypoints all carry a time.                              *)
(***************************************************************************)
Thresholds == {1, 2}
ZHigh == 2

\* a mission of one segment
SegmentMission(p, q, zs, ts, window, drone_id, at) ==
    [heap |-> << Waypoint(p[1], p[2], zs[1], Some(ts[1])),
                 Waypoint(q[1], q[2], zs[2], Some(ts[2])) >>,
     mission |-> [waypoints |-> <<at + 1, at + 2>>, start_time |-> window[1],
                  end_time |-> window[2], drone_id |-> drone_id]]

Grid == {<<x, y>> : x \in 0..MaxX, y \in {0, 1}}
GridStart == {<<x, y>> : x \in {0, 1}, y \in {0, 1}}
Windows == {w \in Times \X Times : w[1] < w[2]}
CandidateZ == {<<None, None>>, <<Some(0), Some(0)>>, <<Some(0), None>>}
ReferenceZ == {<<None, None>>, <<Some(0), Some(0)>>, <<Some(ZHigh), Some(ZHigh)>>}

\* candidate and one reference: every pair of segments of the grid, the
\* candidate starting in its left part, with and without altitude, flown
\* over the same time interval
InitGeometryRich ==
    \E p1 \in GridStart, p2 \in Grid, p3 \in Grid, p4 \in Grid,
       z1 \in CandidateZ, z2 \in ReferenceZ, msd \in Thresholds :
       LET c == SegmentMission(p1, p2, z1, <<0, MaxTime>>, <<0, MaxTime>>, "drone1", 0)
           r == SegmentMission(p3, p4, z2, <<0, MaxTime>>, <<0, MaxTime>>, "drone2", 2)
       IN  /\ heap = c.heap \o r.heap
           /\ missions = <<c.mission, r.mission>>
           /\ system = [simulated_flights |-> <<2>>, min_safe_distance |-> msd]

TimedSegments == { <<<<0, 0>>, <<MaxX, 0>>>>, <<<<1, 0>>, <<1, 1>>>>,
                   <<<<0, 1>>, <<0, 1>>>> }

\* candidate and one reference: every window, every pair of waypoint times
\* of the reference and three of the candidate, on a few segments
InitTimeRich ==
    \E s2 \in TimedSegments,
       w1 \in Windows, w2 \in Windows,
       t1 \in {<<0, 1>>, <<1, MaxTime>>, <<0, MaxTime>>}, t2 \in Times \X Times :
       LET c == SegmentMission(<<0, 0>>, <<MaxX, 0>>, <<None, None>>, t1, w1, "drone1", 0)
           r == SegmentMission(s2[1], s2[2], <<None, None>>, t2, w2, "drone2", 2)
       IN  /\ heap = c.heap \o r.heap
           /\ missions = <<c.mission, r.mission>>
           /\ system = [simulated_flights |-> <<2>>, min_safe_distance |-> 1]

\* a candidate of two segments and two references
InitTwoReferences ==
    \E s1 \in TimedSegments, s2 \in TimedSegments,
       w1 \in Windows, w2 \in Windows,
       id1 \in {"drone1", "drone2"}, id2 \in {"drone1", "drone2", "drone3"},
       msd \in Thresholds :
       LET r1 == SegmentMission(s1[1], s1[2], <<None, None>>, w1, w1, id1, 3)
           r2 == SegmentMission(s2[1], s2[2], <<None, None>>, w2, w2, id2, 5)
       IN  /\ heap = << Waypoint(0, 0, None, Some(0)), Waypoint(MaxX, 0, None, Some(1)),
                        Waypoint(MaxX, 1, None, Some(MaxTime)) >> \o r1.heap \o r2.heap
           /\ missions = << [waypoints |-> <<1, 2, 3>>, start_time |-> 0,
                             end_time |-> MaxTime, drone_id |-> "drone1"],
                            r1.mission, r2.mission >>
           /\ system = [simulated_flights |-> <<2, 3>>, min_safe_distance |-> msd]

\* a candidate of two segments and a reference of two segments, the
\* reference's waypoints on the candidate's, with any times
Corners == { <<0, 0>>, <<MaxX, 0>>, <<MaxX, 1>> }

InitTwoSegments ==
    \E p \in Corners, q \in Corners, r \in Corners,
       ts \in Times \X Times \X Times, msd \in Thresholds :
       /\ heap = << Waypoint(0, 0, None, Some(0)), Waypoint(MaxX, 0, None, Some(1)),
                    Waypoint(MaxX, 1, None, Some(MaxTime)),
                    Waypoint(p[1], p[2], None, Some(ts[1])),
                    Waypoint(q[1], q[2], None, Some(ts[2])),
                    Waypoint(r[1], r[2], None, Some(ts[3])) >>
       /\ missions = << [waypoints |-> <<1, 2, 3>>, start_time |-> 0,
                         end_time |-> MaxTime, drone_id |-> "drone1"],
                        [waypoints |-> <<4, 5, 6>>, start_time |-> 0,
                         end_time |-> MaxTime, drone_id |-> "drone2"] >>
       /\ system = [simulated_flights |-> <<2>>, min_safe_distance |-> msd]

\* missions of one waypoint or one segment, with no reference or one
SmallPaths == {<<p>> : p \in Corners} \cup (Corners \X Corners)

SmallMission(path, z, drone_id, at) ==
    [heap |-> [i \in 1..Len(path) |->
                  Waypoint(path[i][1], path[i][2], z,
                           Some(IF Len(path) = 1 THEN 1 ELSE IF i = 1 THEN 0 ELSE MaxTime))],
     mission |-> [waypoints |-> [i \in 1..Len(path) |-> at + i], start_time |-> 0,
                  end_time |-> MaxTime, drone_id |-> drone_id]]

InitSmallMissions ==
    \E path1 \in SmallPaths, path2 \in SmallPaths, z1 \in {None, Some(0)},
       z2 \in {None, Some(0)}, simulated_flights \in {<< >>, <<2>>} :
       LET c == SmallMission(path1, z1, "drone1", 0)
           r == SmallMission(path2, z2, "drone2", Len(path1))
       IN  /\ heap = c.heap \o r.heap
           /\ missions = <<c.mission, r.mission>>
           /\ system = [simulated_flights |-> simulated_flights, min_safe_distance |-> 1]

\* candidate and one reference on segments between the corners, level,
\* climbing or descending
Altitudes == {<<0, 0>>, <<0, ZHigh>>, <<ZHigh, 0>>, <<ZHigh, ZHigh>>}

InitClimbing ==
    \E s1 \in Corners \X Corners, s2 \in Corners \X Corners,
       z1 \in Altitudes, z2 \in Altitudes, msd \in Thresholds :
       LET c == SegmentMission(s1[1], s1[2], <<Some(z1[1]), Some(z1[2])>>, <<0, MaxTime>>,
                               <<0, MaxTime>>, "drone1", 0)
           r == SegmentMission(s2[1], s2[2], <<Some(z2[1]), Some(z2[2])>>, <<0, MaxTime>>,
                               <<0, MaxTime>>, "drone2", 2)
       IN  /\ heap = c.heap \o r.heap
           /\ missions = <<c.mission, r.mission>>
           /\ system = [simulated_flights |-> <<2>>, min_safe_distance |-> msd]

InitCheck ==
    /\ \/ InitGeometryRich \/ InitTimeRich \/ InitTwoReferences \/ InitTwoSegments
       \/ InitSmallMissions \/ InitClimbing
    /\ lastCtor = NoValue
    /\ call = NoValue
    /\ result = NoValue
    /\ NoGeom

Check == call = NoValue /\ \E now \in NowValues(Times) : CheckMission(1, now)

\* a second system.check_mission(missions[1]), nothing having changed since
\* the first
Recheck ==
    /\ call = [mission |-> 1]
    /\ \E now \in NowValues(Times) :
          /\ call' = [mission |-> 1, repeated |-> TRUE]
          /\ result' = check_mission_outcome(Candidate(1), Flights,
                                              system.min_safe_distance, now)
    /\ UNCHANGED <<heap, missions, lastCtor, system, geomVars>>

NextCheck == Check \/ Recheck

SpecCheck == InitCheck /\ [][NextCheck]_vars

(***************************************************************************)
(* Specification Spec: the caller constructs missions, builds the system   *)
(* and checks missions, in any order.  Specification SpecMutable: the      *)
(* caller also assigns to the attributes of constructed missions.          *)
(***************************************************************************)
CallerTimes == 0..MaxCallerTime
DroneIds == {"drone1", "drone2"}
Untimed(x, y) == Waypoint(x, y, None, None)
CallerPaths == { << >>, << Untimed(0, 0), Untimed(1, 0) >>,
                 << Untimed(0, 2), Untimed(1, 2) >> }

Init == NoSystem /\ NoGeom

Construction ==
    /\ Len(missions) < MaxMissions
    /\ \E given \in CallerPaths, start_time \in CallerTimes, end_time \in CallerTimes,
          drone_id \in DroneIds :
          NewMission(given, start_time, end_time, drone_id)

StartTimeChange == \E m \in 1..Len(missions), t \in CallerTimes : SetStartTime(m, t)

EndTimeChange == \E m \in 1..Len(missions), t \in CallerTimes : SetEndTime(m, t)

WaypointsChange == \E m \in 1..Len(missions) : SetWaypoints(m, << >>)

SystemConstruction ==
    \E n \in 0..Len(missions) : NewSystem([k \in 1..n |-> k], 1)

MissionCheck ==
    \E m \in 1..Len(missions), now \in NowValues(CallerTimes) : CheckMission(m, now)

Next ==
    \/ Construction
    \/ SystemConstruction
    \/ MissionCheck

Spec == Init /\ [][Next]_vars

NextMutable ==
    \/ Construction
    \/ StartTimeChange
    \/ EndTimeChange
    \/ WaypointsChange
    \/ SystemConstruction
    \/ MissionCheck

SpecMutable == Init /\ [][NextMutable]_vars

(***************************************************************************)
(* Specification SpecSharing: the caller of Spec also constructs missions  *)
(* from Waypoint objects of a mission constructed before, alone or         *)
(* followed by a new untimed waypoint.                                     *)
(***************************************************************************)
SharedConstruction ==
    /\ Len(missions) < MaxMissions
    /\ \E m \in 1..Len(missions), given \in {<< >>, << Untimed(1, 1) >>},
          start_time \in CallerTimes, end_time \in CallerTimes, drone_id \in DroneIds :
          \E n \in 1..Len(missions[m].waypoints) :
              NewMissionSharing(SubSeq(missions[m].waypoints, 1, n), given,
                                start_time, end_time, drone_id)

NextSharing ==
    \/ Construction
    \/ SharedConstruction
    \/ SystemConstruction
    \/ MissionCheck

SpecSharing == Init /\ [][NextSharing]_vars

(***************************************************************************)
(* Notions the claims are stated with.                                     *)
(***************************************************************************)
\* equality of two fractional points
SamePoint(pt, qt) == \A i \in 1..Len(pt.n) : pt.n[i] * qt.d = qt.n[i] * pt.d

\* the fractional point pt lies on the finite segment p-q
OnSegment(pt, p, q) ==
    LET v == Sub(q, p)
        c == Dot(v, v)
    IN  IF c = 0 THEN SamePoint(pt, [n |-> p, d |-> 1])
        ELSE LET r == ProjRatio(pt, p, v, c)
             IN  /\ FracLeq(FromInt(0), r)
                 /\ FracLeq(r, FromInt(1))
                 /\ SamePoint(pt, PointAt(p, r, v))

\* the true minimum distance (squared) of a segment pair, in 3D when all
\* four waypoints carry z and in the plane otherwise
TrueSegmentDist2(seg1, seg2) ==
    LET include_z == \A wp \in {seg1[1], seg1[2], seg2[1], seg2[2]} : wp.z # None
    IN  TrueMinDist2(coordinates(seg1[1], include_z), coordinates(seg1[2], include_z),
                     coordinates(seg2[1], include_z), coordinates(seg2[2], include_z))

\* the time intervals of two segments with timed waypoints overlap
SegmentIntervalsOverlap(seg1, seg2) ==
    /\ seg1[1].time[1] < seg2[2].time[1]
    /\ seg2[1].time[1] < seg1[2].time[1]

\* the mission windows overlap
WindowsOverlap(m1, m2) == m1.start_time < m2.end_time /\ m2.start_time < m1.end_time

Checked == result # NoValue
Cand == Candidate(call.mission)
MinSafe2 == FromInt(system.min_safe_distance * system.min_safe_distance)
SegmentsOf(m) == get_path_segments(m.waypoints)
SegmentPairs(m1, m2) ==
    {<<SegmentsOf(m1)[i], SegmentsOf(m2)[j]>> :
        i \in 1..Len(SegmentsOf(m1)), j \in 1..Len(SegmentsOf(m2))}

(***************************************************************************)
(* C1.  No missed conflict: when a reference mission of another drone has  *)
(* a window overlapping the candidate's, and a candidate segment and a     *)
(* segment of that reference overlap in time and have a true minimum       *)
(* distance strictly below min_safe_distance, check_mission returns a      *)
(* result that is not clear.                                               *)
(***************************************************************************)
TrueConflictWith(ref) ==
    /\ ref.drone_id # Cand.drone_id
    /\ WindowsOverlap(Cand, ref)
    /\ \E pr \in SegmentPairs(Cand, ref) :
          /\ SegmentIntervalsOverlap(pr[1], pr[2])
          /\ FracLess(TrueSegmentDist2(pr[1], pr[2]), MinSafe2)

C1_NoMissedConflict ==
    Checked => ((\E k \in 1..Len(Flights) : TrueConflictWith(Flights[k]))
                    => ~result.is_clear)

(***************************************************************************)
(* C2.  _min_distance_segments returns the true minimum distance of the    *)
(* two finite segments, with a point of each segment achieving it.         *)
(***************************************************************************)
C2_TrueMinimumDistance ==
    geomOut # NoValue =>
        /\ geomOut.dist2 = TrueMinDist2(geomIn[1], geomIn[2], geomIn[3], geomIn[4])
        /\ OnSegment(geomOut.pt1, geomIn[1], geomIn[2])
        /\ OnSegment(geomOut.pt2, geomIn[3], geomIn[4])
        /\ Norm2(geomOut.pt1, geomOut.pt2) = geomOut.dist2

(***************************************************************************)
(* C3.  The distance of segments A and B equals the distance of B and A.   *)
(***************************************************************************)
C3_DistanceSymmetric ==
    (geomOut # NoValue /\ geomOutSwapped # NoValue)
        => geomOut.dist2 = geomOutSwapped.dist2

(***************************************************************************)
(* Notions of C4-C8.                                                       *)
(***************************************************************************)
Records == result.conflict_details
RecordsAgainst(id) == {n \in 1..Len(Records) : Records[n].conflicting_drone_id = id}
FlightsOf(id) == {k \in 1..Len(Flights) : Flights[k].drone_id = id}
FlightIds == {Flights[k].drone_id : k \in 1..Len(Flights)}

\* one window ends at or before the other starts
WindowsDisjoint(m1, m2) == m1.end_time <= m2.start_time \/ m2.end_time <= m1.start_time

\* the distance the engine computes for a segment pair is below the threshold
ComputedBelow(pr) ==
    FracLess(SegmentDistance(pr[1][1], pr[1][2], pr[2][1], pr[2][2]).dist2, MinSafe2)

\* the two segments share a point of the xy-plane
PlanarIntersect(pr) ==
    TrueMinDist2(coordinates(pr[1][1], FALSE), coordinates(pr[1][2], FALSE),
                 coordinates(pr[2][1], FALSE), coordinates(pr[2][2], FALSE)) = FromInt(0)

\* a reference whose path and times would give a record but for the filter
\* under test
WouldConflict(ref) ==
    \E pr \in SegmentPairs(Cand, ref) :
        SegmentIntervalsOverlap(pr[1], pr[2]) /\ ComputedBelow(pr)

(***************************************************************************)
(* C4.  Self-exclusion: the result holds no record against a reference     *)
(* whose drone_id is the candidate's; when every reference has the         *)
(* candidate's drone_id the result is clear.                               *)
(***************************************************************************)
C4_SelfExclusion ==
    Checked =>
        /\ RecordsAgainst(Cand.drone_id) = {}
        /\ (FlightIds \subseteq {Cand.drone_id})
               => (result.is_clear /\ Records = << >>)

C4_Witness ==
    /\ Checked
    /\ ~result.is_clear
    /\ \E k \in FlightsOf(Cand.drone_id) :
          WindowsOverlap(Cand, Flights[k]) /\ WouldConflict(Flights[k])

(***************************************************************************)
(* C5.  A reference whose mission window is disjoint from the candidate's  *)
(* contributes no record, whatever the geometry and the waypoint times;    *)
(* when every reference is so, the result is clear.                        *)
(***************************************************************************)
C5_DisjointWindowsClear ==
    Checked =>
        /\ \A id \in FlightIds :
              (\A k \in FlightsOf(id) : WindowsDisjoint(Cand, Flights[k]))
                  => RecordsAgainst(id) = {}
        /\ (\A k \in 1..Len(Flights) : WindowsDisjoint(Cand, Flights[k]))
               => result.is_clear

C5_Witness ==
    /\ Checked
    /\ result.is_clear
    /\ \E k \in 1..Len(Flights) :
          /\ Flights[k].drone_id # Cand.drone_id
          /\ Cand.end_time = Flights[k].start_time
          /\ WouldConflict(Flights[k])

(***************************************************************************)
(* C6.  A reference all of whose segments stay at a true distance of at    *)
(* least min_safe_distance from all segments of the candidate contributes  *)
(* no record, also when the windows overlap.                               *)
(***************************************************************************)
SpatiallySeparated(m1, m2) ==
    \A pr \in SegmentPairs(m1, m2) : FracLeq(MinSafe2, TrueSegmentDist2(pr[1], pr[2]))

C6_SeparatedClear ==
    Checked =>
        \A id \in FlightIds :
            (\A k \in FlightsOf(id) : SpatiallySeparated(Cand, Flights[k]))
                => RecordsAgainst(id) = {}

C6_Witness ==
    /\ Checked
    /\ \E k \in 1..Len(Flights) :
          /\ Flights[k].drone_id # Cand.drone_id
          /\ WindowsOverlap(Cand, Flights[k])
          /\ SpatiallySeparated(Cand, Flights[k])
          /\ RecordsAgainst(Flights[k].drone_id) = {}
          /\ \E pr \in SegmentPairs(Cand, Flights[k]) :
                /\ SegmentIntervalsOverlap(pr[1], pr[2])
                /\ TrueSegmentDist2(pr[1], pr[2]) = MinSafe2

(***************************************************************************)
(* C7.  Altitude separation gives clear: when all waypoints of the         *)
(* candidate and of a reference carry z and every waypoint of one differs  *)
(* in z from every waypoint of the other by more than min_safe_distance,   *)
(* that reference contributes no record, also when the paths cross in the  *)
(* xy-plane and overlap in time.                                           *)
(***************************************************************************)
WaypointsOf(m) == {m.waypoints[i] : i \in 1..Len(m.waypoints)}
AllCarryZ(m1, m2) == \A wp \in WaypointsOf(m1) \cup WaypointsOf(m2) : wp.z # None

AltitudeSeparated(m1, m2) ==
    /\ AllCarryZ(m1, m2)
    /\ \A w1 \in WaypointsOf(m1), w2 \in WaypointsOf(m2) :
          Abs(w1.z[1] - w2.z[1]) > system.min_safe_distance

C7_AltitudeSeparationClear ==
    Checked =>
        /\ \A id \in FlightIds :
              (\A k \in FlightsOf(id) : AltitudeSeparated(Cand, Flights[k]))
                  => RecordsAgainst(id) = {}
        /\ (\A k \in 1..Len(Flights) : AltitudeSeparated(Cand, Flights[k]))
               => result.is_clear

C7_Witness ==
    /\ Checked
    /\ result.is_clear
    /\ \E k \in 1..Len(Flights) :
          /\ Flights[k].drone_id # Cand.drone_id
          /\ AltitudeSeparated(Cand, Flights[k])
          /\ WindowsOverlap(Cand, Flights[k])
          /\ \E pr \in SegmentPairs(Cand, Flights[k]) :
                SegmentIntervalsOverlap(pr[1], pr[2]) /\ PlanarIntersect(pr)

(***************************************************************************)
(* C8.  Insufficient altitude separation gives a conflict: when all        *)
(* waypoints of the candidate and of a reference of another drone carry z  *)
(* and differ in z by less than min_safe_distance, and a candidate segment *)
(* and a reference segment cross in the xy-plane and overlap in time, the  *)
(* result is not clear.                                                    *)
(***************************************************************************)
AltitudeClose(m1, m2) ==
    /\ AllCarryZ(m1, m2)
    /\ \A w1 \in WaypointsOf(m1), w2 \in WaypointsOf(m2) :
          Abs(w1.z[1] - w2.z[1]) < system.min_safe_distance

C8_InsufficientAltitudeConflict ==
    Checked =>
        ((\E k \in 1..Len(Flights) :
             /\ Flights[k].drone_id # Cand.drone_id
             /\ WindowsOverlap(Cand, Flights[k])
             /\ AltitudeClose(Cand, Flights[k])
             /\ \E pr \in SegmentPairs(Cand, Flights[k]) :
                   SegmentIntervalsOverlap(pr[1], pr[2]) /\ PlanarIntersect(pr))
            => ~result.is_clear)

(***************************************************************************)
(* C9.  Mission(...) raises exactly when the waypoint list is empty or     *)
(* start_time >= end_time (equal times included); otherwise the Mission is *)
(* constructed; a call that raises leaves every waypoint time as given.    *)
(***************************************************************************)
CtorReturned == lastCtor # NoValue /\ lastCtor.outcome # "pending"

C9_ValidationExact ==
    CtorReturned =>
        /\ (lastCtor.outcome # Constructed)
               <=> (lastCtor.given = << >> \/ lastCtor.start_time >= lastCtor.end_time)
        /\ (lastCtor.outcome # Constructed)
               => (lastCtor.after = lastCtor.given /\ missions = << >> /\ heap = << >>)
        /\ (lastCtor.outcome = Constructed)
               => (Len(missions) = 1 /\ Len(heap) = Len(lastCtor.given))

C9_Witness ==
    /\ CtorReturned
    /\ lastCtor.outcome = InvalidTimeWindow
    /\ lastCtor.start_time = lastCtor.end_time
    /\ \E i \in 1..Len(lastCtor.given) : lastCtor.given[i].time = None
    /\ lastCtor.after = lastCtor.given

(***************************************************************************)
(* C10.  Invalid Missions never reach the engine: every Mission a call of  *)
(* check_mission operates on, candidate or reference, has a waypoint and   *)
(* start_time < end_time, whatever the caller did before the call.         *)
(***************************************************************************)
ValidMission(m) == m.waypoints # << >> /\ m.start_time < m.end_time

C10_InvalidNeverReachEngine ==
    [][(call' # call \/ result' # result) =>
          /\ ValidMission(missions[call'.mission])
          /\ \A k \in 1..Len(system.simulated_flights) :
                ValidMission(missions[system.simulated_flights[k]])]_vars

(***************************************************************************)
(* C11.  Waypoint time auto-assignment.  As claimed: a Mission constructed *)
(* from N >= 1 waypoints, one at least without a time, has                 *)
(* waypoints[0].time = start_time, waypoints[N-1].time = end_time and      *)
(* waypoints[i].time = start_time + (end_time - start_time) * i / (N-1)    *)
(* for 0 < i < N-1.                                                        *)
(***************************************************************************)
AutoAssigned ==
    /\ CtorReturned
    /\ lastCtor.outcome = Constructed
    /\ \E i \in 1..Len(lastCtor.given) : lastCtor.given[i].time = None

C11_EvenAssignment ==
    AutoAssigned =>
        LET N == Len(lastCtor.given)
            total == lastCtor.end_time - lastCtor.start_time
        IN  /\ lastCtor.after[1].time = Some(lastCtor.start_time)
            /\ lastCtor.after[N].time = Some(lastCtor.end_time)
            /\ \A i \in 1..(N - 2) :
                  (lastCtor.after[i + 1].time[1] - lastCtor.start_time) * (N - 1) = total * i

(***************************************************************************)
(* C11, amended.  For N >= 2 distinct waypoints, one at least without a    *)
(* time: the first gets start_time, the last end_time, and waypoint i the  *)
(* tick nearest to start_time + (end_time - start_time) * i / (N-1), the   *)
(* even offset on a tie; for N = 1 the only waypoint gets start_time.      *)
(***************************************************************************)
\* off is the whole number nearest to num / den (den > 0), even on a tie
NearestTick(off, num, den) ==
    /\ 2 * Abs(off * den - num) <= den
    /\ (2 * Abs(off * den - num) = den) => off % 2 = 0

C11_EvenAssignmentRounded ==
    AutoAssigned =>
        LET N == Len(lastCtor.given)
            total == lastCtor.end_time - lastCtor.start_time
        IN  /\ lastCtor.after[1].time = Some(lastCtor.start_time)
            /\ N >= 2 => lastCtor.after[N].time = Some(lastCtor.end_time)
            /\ \A i \in 1..(N - 2) :
                  NearestTick(lastCtor.after[i + 1].time[1] - lastCtor.start_time,
                              total * i, N - 1)
            /\ Len(heap) = N
            /\ \A i \in 1..N : heap[missions[1].waypoints[i]] = lastCtor.after[i]

C11_Witness ==
    /\ AutoAssigned
    /\ Len(lastCtor.given) = 3
    /\ (lastCtor.end_time - lastCtor.start_time) % 2 = 1
    /\ lastCtor.given[2].time # None
    /\ lastCtor.after[2].time # lastCtor.given[2].time

(***************************************************************************)
(* C12.  A ConflictResult starts clear with no records; after any sequence *)
(* of add_conflict calls it is clear exactly when it has no records; each  *)
(* call appends one record built from its arguments after the records      *)
(* already held, which stay as they were; and a result that is not clear   *)
(* stays not clear.                                                        *)
(***************************************************************************)
RecordOfCall(args) ==
    [location |-> args.location,
     time |-> args.time,
     conflicting_drone_id |-> args.conflicting_drone_id,
     actual_distance2 |-> args.distance2,
     min_safe_distance |-> args.min_safe_distance]

C12_ClearIffNoRecords ==
    /\ result.is_clear /\ result.conflict_details = << >>
    /\ [](result.is_clear <=> result.conflict_details = << >>)
    /\ [][/\ Len(result'.conflict_details) = Len(result.conflict_details) + 1
          /\ \A k \in 1..Len(result.conflict_details) :
                result'.conflict_details[k] = result.conflict_details[k]
          /\ result'.conflict_details[Len(result'.conflict_details)] = RecordOfCall(call')
          /\ ~result.is_clear => ~result'.is_clear]_vars

C12_Witness ==
    /\ ~result.is_clear
    /\ Len(result.conflict_details) = 3
    /\ result.conflict_details[1] = result.conflict_details[3]
    /\ result.conflict_details[1] # result.conflict_details[2]

SegmentTriples ==
    UNION {{<<k, i, j>> : i \in 1..Len(SegmentsOf(Cand)),
                          j \in 1..Len(SegmentsOf(Flights[k]))} : k \in 1..Len(Flights)}

TriplePair(tr) == <<SegmentsOf(Cand)[tr[2]], SegmentsOf(Flights[tr[1]])[tr[3]]>>

Violating(tr) ==
    /\ Flights[tr[1]].drone_id # Cand.drone_id
    /\ WindowsOverlap(Cand, Flights[tr[1]])
    /\ SegmentIntervalsOverlap(TriplePair(tr)[1], TriplePair(tr)[2])
    /\ ComputedBelow(TriplePair(tr))

ViolatingTriples == {tr \in SegmentTriples : Violating(tr)}

TripleBefore(u, tr) ==
    \/ u[1] < tr[1]
    \/ u[1] = tr[1] /\ u[2] < tr[2]
    \/ u[1] = tr[1] /\ u[2] = tr[2] /\ u[3] < tr[3]

\* the position (1-based) of a violating triple in the claimed order
TriplePosition(tr) == Cardinality({u \in ViolatingTriples : TripleBefore(u, tr)}) + 1

InUnit(r) == FracLeq(FromInt(0), r) /\ FracLeq(r, FromInt(1))

C15_PointsOnSegments ==
    geomOut # NoValue =>
        /\ InUnit(geomOut.s) /\ InUnit(geomOut.t)
        /\ SamePoint(geomOut.pt1, PointAt(geomIn[1], geomOut.s, Sub(geomIn[2], geomIn[1])))
        /\ SamePoint(geomOut.pt2, PointAt(geomIn[3], geomOut.t, Sub(geomIn[4], geomIn[3])))
        /\ OnSegment(geomOut.pt1, geomIn[1], geomIn[2])
        /\ OnSegment(geomOut.pt2, geomIn[3], geomIn[4])
        /\ geomOut.dist2 = Norm2(geomOut.pt1, geomOut.pt2)
        /\ FracLeq(TrueMinDist2(geomIn[1], geomIn[2], geomIn[3], geomIn[4]), geomOut.dist2)

\* the general branch with s clamped to the end of segment 1, t inside
\* segment 2 and a distance above the true minimum
C15_Witness ==
    /\ geomOut # NoValue
    /\ geomOut.branch = "general"
    /\ geomOut.s = FromInt(1)
    /\ FracLess(FromInt(0), geomOut.t) /\ FracLess(geomOut.t, FromInt(1))
    /\ FracLess(TrueMinDist2(geomIn[1], geomIn[2], geomIn[3], geomIn[4]), geomOut.dist2)

(***************************************************************************)
(* C16.  Given valid Missions (non-empty, start_time < end_time, all       *)
(* waypoints timed), check_mission returns a ConflictResult, possibly      *)
(* without records, and does not raise: for zero-length, parallel and      *)
(* collinear segments, single-waypoint missions, an empty reference set    *)
(* and waypoints with and without z.  Every loop of the check runs over a  *)
(* finite list (the references, the segments, the conflicts found), which  *)
(* the model computes by recursion on the index.                           *)
(***************************************************************************)
AllTimed(m) == \A i \in 1..Len(m.waypoints) : m.waypoints[i].time # None

ValidInputs ==
    /\ ValidMission(missions[call.mission]) /\ AllTimed(Cand)
    /\ \A k \in 1..Len(Flights) :
          ValidMission(missions[system.simulated_flights[k]]) /\ AllTimed(Flights[k])

C16_ReturnsResult ==
    (Checked /\ ValidInputs) =>
        /\ result # Raised
        /\ result.is_clear \in BOOLEAN
        /\ result.conflict_details \in Seq([location : [n : Seq(Int), d : Int], time : Int,
                                            conflicting_drone_id : STRING,
                                            actual_distance2 : [n : Int, d : Int],
                                            min_safe_distance : Int])

\* a candidate whose waypoints carry z only in part, against a reference
\* with z, on parallel segments within the threshold
C16_Witness ==
    /\ Checked /\ ValidInputs
    /\ Len(Flights) = 1 /\ Len(SegmentsOf(Cand)) = 1 /\ Len(SegmentsOf(Flights[1])) = 1
    /\ Cand.waypoints[1].z # None /\ Cand.waypoints[2].z = None
    /\ Flights[1].waypoints[1].z # None
    /\ SegmentDistance(Cand.waypoints[1], Cand.waypoints[2],
                       Flights[1].waypoints[1], Flights[1].waypoints[2]).branch = "parallel"
    /\ ~result.is_clear

\* a single-waypoint candidate checked against no reference
C16_SmallWitness ==
    /\ Checked /\ ValidInputs
    /\ Len(Cand.waypoints) = 1 /\ Len(Flights) = 0
    /\ result = NewConflictResult

(***************************************************************************)
(* C17.  In the degenerate/parallel branch of _min_distance_segments the   *)
(* returned point of segment A is the point of A closest to p3, the        *)
(* returned point of segment B is the point of B closest to that point,    *)
(* and when B is the single point p3 = p4 the returned distance is the     *)
(* distance from p3 to segment A.                                          *)
(***************************************************************************)
\* qt is the point of segment p-q closest to the fractional point pt
ClosestToPoint(qt, pt, p, q) ==
    LET v == Sub(q, p)
        c == Dot(v, v)
    IN  SamePoint(qt, PointAt(p, IF c = 0 THEN FromInt(0)
                                 ELSE Clamp01(ProjRatio(pt, p, v, c)), v))

C17_ParallelBranchClosest ==
    (geomOut # NoValue /\ geomOut.branch = "parallel") =>
        /\ SamePoint(geomOut.pt1, ClosestOnSegment(geomIn[3], geomIn[1], geomIn[2]))
        /\ ClosestToPoint(geomOut.pt2, geomOut.pt1, geomIn[3], geomIn[4])
        /\ geomIn[3] = geomIn[4] =>
              geomOut.dist2 = PointSegDist2(geomIn[3], geomIn[1], geomIn[2])

(***************************************************************************)
(* C18.  Every record of a result returned by check_mission has an         *)
(* actual_distance strictly below min_safe_distance, the min_safe_distance *)
(* of the system, and the drone_id of a reference mission that is not the  *)
(* candidate's drone_id.                                                   *)
(***************************************************************************)
C18_RecordFields ==
    Checked =>
        \A n \in 1..Len(Records) :
            /\ FracLess(Records[n].actual_distance2,
                        FromInt(Records[n].min_safe_distance * Records[n].min_safe_distance))
            /\ Records[n].min_safe_distance = system.min_safe_distance
            /\ Records[n].conflicting_drone_id \in FlightIds
            /\ Records[n].conflicting_drone_id # Cand.drone_id

\* a record at a distance between 0 and the threshold, next to a reference
\* with the candidate's drone_id
C18_Witness ==
    /\ Checked
    /\ \E k \in 1..Len(Flights) : Flights[k].drone_id = Cand.drone_id
    /\ \E n \in 1..Len(Records) : FracLess(FromInt(0), Records[n].actual_distance2)

(***************************************************************************)
(* C19.  Segment-level time filter: with all four waypoint times present,  *)
(* a segment pair gives a record only if start1.time < end2.time and       *)
(* start2.time < end1.time; a pair whose time intervals are disjoint or    *)
(* touch at an endpoint gives none, even when the segments coincide in     *)
(* space.  Records name the reference's drone_id only, so the pairs are    *)
(* counted per drone_id.                                                   *)
(***************************************************************************)
TimeOverlappingTriples(id) ==
    {tr \in SegmentTriples :
        /\ Flights[tr[1]].drone_id = id
        /\ SegmentIntervalsOverlap(TriplePair(tr)[1], TriplePair(tr)[2])}

C19_SegmentTimeFilter ==
    (Checked /\ AllTimed(Cand) /\ \A k \in 1..Len(Flights) : AllTimed(Flights[k])) =>
        \A id \in FlightIds :
            Cardinality(RecordsAgainst(id)) <= Cardinality(TimeOverlappingTriples(id))

\* candidate and reference fly the same segment, the reference starting
\* when the candidate arrives; the result is clear
C19_Witness ==
    /\ Checked
    /\ Len(Flights) = 1 /\ Len(SegmentsOf(Cand)) = 1 /\ Len(SegmentsOf(Flights[1])) = 1
    /\ Flights[1].drone_id # Cand.drone_id
    /\ WindowsOverlap(Cand, Flights[1])
    /\ \A i \in 1..2 : /\ Cand.waypoints[i].x = Flights[1].waypoints[i].x
                       /\ Cand.waypoints[i].y = Flights[1].waypoints[i].y
    /\ Cand.waypoints[1].time[1] < Cand.waypoints[2].time[1]
    /\ Cand.waypoints[2].time = Flights[1].waypoints[1].time
    /\ Flights[1].waypoints[1].time[1] < Flights[1].waypoints[2].time[1]
    /\ result.is_clear

(***************************************************************************)
(* C20.  Altitude enters a segment-pair comparison exactly when all four   *)
(* waypoints of the pair have z; when one of them lacks z the comparison   *)
(* is made on (x, y) for all four points, so that a candidate and a        *)
(* reference of another drone, overlapping in time, whose xy-paths are     *)
(* within the threshold are reported as a conflict whatever the z of the   *)
(* waypoints that carry one.                                               *)
(***************************************************************************)
SomeLacksZ(pr) == \E wp \in {pr[1][1], pr[1][2], pr[2][1], pr[2][2]} : wp.z = None

PlanarDist2(pr) ==
    TrueMinDist2(coordinates(pr[1][1], FALSE), coordinates(pr[1][2], FALSE),
                 coordinates(pr[2][1], FALSE), coordinates(pr[2][2], FALSE))

C20_AltitudeAllOrNone ==
    Checked =>
        \A k \in 1..Len(Flights) : \A pr \in SegmentPairs(Cand, Flights[k]) :
            /\ Len(SegmentDistance(pr[1][1], pr[1][2], pr[2][1], pr[2][2]).pt1.n) =
                   (IF SomeLacksZ(pr) THEN 2 ELSE 3)
            /\ ( /\ SomeLacksZ(pr)
                 /\ Flights[k].drone_id # Cand.drone_id
                 /\ WindowsOverlap(Cand, Flights[k])
                 /\ SegmentIntervalsOverlap(pr[1], pr[2])
                 /\ FracLess(PlanarDist2(pr), MinSafe2) )
               => RecordsAgainst(Flights[k].drone_id) # {}

(***************************************************************************)
(* C21.  The location of every conflict record is the planar (x, y)        *)
(* projection of the point of the candidate's segment that                 *)
(* _min_distance_segments returns for the violating pair, in 2D and in 3D  *)
(* comparisons; it lies on the xy-projection of the candidate's segment.   *)
(***************************************************************************)
PlanarPoint(wp) == coordinates(wp, FALSE)

C21_LocationOnCandidate ==
    Checked =>
        \A tr \in ViolatingTriples :
            LET rec == Records[TriplePosition(tr)]
                pr == TriplePair(tr)
                md == SegmentDistance(pr[1][1], pr[1][2], pr[2][1], pr[2][2])
            IN  /\ Len(rec.location.n) = 2
                /\ SamePoint(rec.location, Planar(md.pt1))
                /\ OnSegment(rec.location, PlanarPoint(pr[1][1]), PlanarPoint(pr[1][2]))

\* a 3D comparison whose record lies off the reference's planar segment
C21_Witness ==
    /\ Checked
    /\ \E tr \in ViolatingTriples :
          /\ ~SomeLacksZ(TriplePair(tr))
          /\ ~OnSegment(Records[TriplePosition(tr)].location,
                        PlanarPoint(TriplePair(tr)[2][1]), PlanarPoint(TriplePair(tr)[2][2]))

(***************************************************************************)
(* C22.  With all four waypoint times present, the time of a conflict      *)
(* record is min(t1, t2), where t_k is start_k.time plus ratio_k times     *)
(* (end_k.time - start_k.time), a whole number of ticks as every datetime, *)
(* and ratio_k is the projection of segment k's closest point onto the     *)
(* direction of segment k, clamped to [0, 1], and 0 for a segment of zero  *)
(* length.  The closest points and the segments are those of the           *)
(* comparison that gave the record: spatial when all four waypoints have   *)
(* z, planar otherwise.                                                    *)
(***************************************************************************)
SegmentRatio(start, end, point, include_z) ==
    LET p == coordinates(start, include_z)
        v == Sub(coordinates(end, include_z), p)
        c == Dot(v, v)
    IN  IF c = 0 THEN FromInt(0) ELSE Clamp01(ProjRatio(point, p, v, c))

\* t is start.time + ratio * (end.time - start.time) to the nearest tick
InterpolatedAt(t, start, end, ratio) ==
    NearestTick(t - start.time[1], ratio.n * (end.time[1] - start.time[1]), ratio.d)

C22_RecordTimeInterpolated ==
    (Checked /\ AllTimed(Cand) /\ \A k \in 1..Len(Flights) : AllTimed(Flights[k])) =>
        \A tr \in ViolatingTriples :
            LET rec == Records[TriplePosition(tr)]
                pr == TriplePair(tr)
                md == SegmentDistance(pr[1][1], pr[1][2], pr[2][1], pr[2][2])
                ratio1 == SegmentRatio(pr[1][1], pr[1][2], md.pt1, ~SomeLacksZ(pr))
                ratio2 == SegmentRatio(pr[2][1], pr[2][2], md.pt2, ~SomeLacksZ(pr))
            IN  \E t1 \in Times, t2 \in Times :
                    /\ InterpolatedAt(t1, pr[1][1], pr[1][2], ratio1)
                    /\ InterpolatedAt(t2, pr[2][1], pr[2][2], ratio2)
                    /\ rec.time = Min(t1, t2)

(***************************************************************************)
(* C23.  All-or-nothing time assignment: a Mission constructed from timed  *)
(* and untimed waypoints together has the time of every waypoint, those    *)
(* the caller supplied included, replaced by the even-by-index time over   *)
(* [start_time, end_time]; when every waypoint has a time, construction    *)
(* changes no waypoint time.                                               *)
(***************************************************************************)
GivenTimed == {i \in 1..Len(lastCtor.given) : lastCtor.given[i].time # None}

C23_AllOrNothing ==
    (CtorReturned /\ lastCtor.outcome = Constructed) =>
        LET N == Len(lastCtor.given)
            total == lastCtor.end_time - lastCtor.start_time
        IN  /\ (GivenTimed # {} /\ GivenTimed # 1..N) =>
                  \A i \in 1..N :
                      /\ lastCtor.after[i].time # None
                      /\ NearestTick(lastCtor.after[i].time[1] - lastCtor.start_time,
                                     total * (i - 1), N - 1)
                      /\ heap[missions[1].waypoints[i]].time = lastCtor.after[i].time
            /\ GivenTimed = 1..N =>
                  \A i \in 1..N :
                      /\ lastCtor.after[i] = lastCtor.given[i]
                      /\ heap[missions[1].waypoints[i]] = lastCtor.given[i]

\* the first waypoint was given the window's end as its time and has the
\* window's start after construction
C23_Witness ==
    /\ CtorReturned /\ lastCtor.outcome = Constructed
    /\ GivenTimed # {} /\ GivenTimed # 1..Len(lastCtor.given)
    /\ lastCtor.given[1].time = Some(lastCtor.end_time)
    /\ lastCtor.after[1].time = Some(lastCtor.start_time)

(***************************************************************************)
(* C24.  check_mission only reads its inputs: a check_mission call leaves  *)
(* the candidate mission, every reference mission (waypoints, coordinates, *)
(* times, window, drone_id), the system's list of references and its       *)
(* min_safe_distance as they were.                                         *)
(***************************************************************************)
C24_CheckOnlyReads ==
    [][(call' # call \/ result' # result) =>
          /\ heap' = heap
          /\ missions' = missions
          /\ system' = system]_vars

\* the second mission checked against a system holding both missions, with
\* a conflict found
C24_Witness ==
    /\ Checked
    /\ call.mission = 2
    /\ system.simulated_flights = <<1, 2>>
    /\ ~result.is_clear

(***************************************************************************)
(* C25.  Each check_mission call returns a newly created ConflictResult    *)
(* that shares its record list with no other ConflictResult: appending a   *)
(* record to one result, by add_conflict or by a later check_mission call, *)
(* changes neither is_clear nor the records of any other result.           *)
(***************************************************************************)
C25_ResultsShareNothing ==
    /\ [](\A r1, r2 \in 1..Len(result.objects) :
             r1 # r2 => result.objects[r1].conflict_details
                            # result.objects[r2].conflict_details)
    /\ [][\A r \in 1..Len(result.objects) :
             r # call'.target => ResultValue(result', r) = ResultValue(result, r)]_vars

\* a result returned by check_mission with its one record, next to a result
\* returned earlier to which the caller has appended two records
C25_Witness ==
    /\ Len(result.objects) = 2
    /\ Len(ResultValue(result, 1).conflict_details) = 3
    /\ Len(ResultValue(result, 2).conflict_details) = 1
    /\ ResultValue(result, 2).conflict_details[1].conflicting_drone_id = "drone1"
    /\ ResultValue(result, 1).conflict_details[1].conflicting_drone_id = "drone2"
    /\ ResultValue(result, 1).conflict_details[3].conflicting_drone_id = "drone3"

(***************************************************************************)
(* C26.  The time of every conflict record lies within the intersection of *)
(* the time intervals of the two segments that gave it: no earlier than    *)
(* the later of the two segment start times and no later than the earlier  *)
(* of the two segment end times, for segments whose four waypoint times    *)
(* are present and increase from start to end.                             *)
(***************************************************************************)
Max(i, j) == IF j > i THEN j ELSE i

IncreasingTimes(seg) ==
    /\ seg[1].time # None /\ seg[2].time # None
    /\ seg[1].time[1] < seg[2].time[1]

C26_TimeWithinIntersection ==
    Checked =>
        \A tr \in ViolatingTriples :
            LET rec == Records[TriplePosition(tr)]
                pr == TriplePair(tr)
            IN  (IncreasingTimes(pr[1]) /\ IncreasingTimes(pr[2])) =>
                    /\ Max(pr[1][1].time[1], pr[2][1].time[1]) <= rec.time
                    /\ rec.time <= Min(pr[1][2].time[1], pr[2][2].time[1])

(***************************************************************************)
(* C27.  Clear status is symmetric under swapping roles: for two valid     *)
(* missions A and B of different drones and one min_safe_distance, the     *)
(* check of A against the reference set {B} is clear exactly when the      *)
(* check of B against the reference set {A} is clear.                      *)
(***************************************************************************)
SwappedResult ==
    check_mission_outcome(Flights[1], <<Cand>>, system.min_safe_distance, 0)

C27_ClearSymmetric ==
    (Checked /\ ValidInputs /\ Len(Flights) = 1 /\ Flights[1].drone_id # Cand.drone_id) =>
        /\ SwappedResult # Raised
        /\ result.is_clear <=> SwappedResult.is_clear

(***************************************************************************)
(* C28.  After the successful construction of a Mission every waypoint's   *)
(* time lies within [start_time, end_time] and the waypoint times are      *)
(* non-decreasing in the waypoint index, when the times were auto-assigned *)
(* and when the caller supplied every waypoint time.                       *)
(***************************************************************************)
C28_TimesWithinWindowOrdered ==
    (CtorReturned /\ lastCtor.outcome = Constructed) =>
        /\ \A i \in 1..Len(lastCtor.after) :
              /\ lastCtor.after[i].time # None
              /\ lastCtor.start_time <= lastCtor.after[i].time[1]
              /\ lastCtor.after[i].time[1] <= lastCtor.end_time
        /\ \A i \in 1..(Len(lastCtor.after) - 1) :
              lastCtor.after[i].time[1] <= lastCtor.after[i + 1].time[1]

(***************************************************************************)
(* C29.  A mission of exactly one waypoint has no segments and is never    *)
(* part of a conflict: the check of a single-waypoint candidate is clear,  *)
(* and a single-waypoint reference gives no record, also when its waypoint *)
(* lies on the other mission's path and the windows overlap.               *)
(***************************************************************************)
LoneWaypoint(m) == Len(m.waypoints) = 1

C29_LoneWaypointNeverConflicts ==
    Checked =>
        /\ LoneWaypoint(Cand) => (SegmentsOf(Cand) = << >> /\ result.is_clear)
        /\ \A k \in 1..Len(Flights) : LoneWaypoint(Flights[k]) => SegmentsOf(Flights[k]) = << >>
        /\ \A id \in FlightIds :
              (\A k \in FlightsOf(id) : LoneWaypoint(Flights[k])) => RecordsAgainst(id) = {}

\* a single-waypoint reference of another drone on the candidate's segment,
\* at a time within the segment's interval
C29_Witness ==
    /\ Checked
    /\ Len(Flights) = 1 /\ LoneWaypoint(Flights[1]) /\ Len(SegmentsOf(Cand)) = 1
    /\ Flights[1].drone_id # Cand.drone_id
    /\ WindowsOverlap(Cand, Flights[1])
    /\ PointSegDist2(PlanarPoint(Flights[1].waypoints[1]),
                     PlanarPoint(Cand.waypoints[1]), PlanarPoint(Cand.waypoints[2]))
           = FromInt(0)
    /\ Cand.waypoints[1].time[1] < Flights[1].waypoints[1].time[1]
    /\ Flights[1].waypoints[1].time[1] < Cand.waypoints[2].time[1]
    /\ Cand.waypoints[1].z = None
    /\ result.is_clear

(***************************************************************************)
(* C30.  Constructing a new Mission never changes the waypoint times of a  *)
(* Mission constructed before, also when the new mission is built from     *)
(* some of the same Waypoint objects and an untimed waypoint; so the       *)
(* result of check_mission for the earlier mission is the same before and  *)
(* after the later construction.                                           *)
(***************************************************************************)
WaypointTimes(h, m) == [i \in 1..Len(m.waypoints) |-> h[m.waypoints[i]].time]

C30_EarlierMissionsKeepTimes ==
    [][\A m \in 1..Len(missions) :
          /\ WaypointTimes(heap', missions'[m]) = WaypointTimes(heap, missions[m])
          /\ system # NoValue =>
                check_mission_outcome(ReadMission(heap', missions'[m]),
                    [k \in 1..Len(system.simulated_flights) |->
                        ReadMission(heap', missions'[system.simulated_flights[k]])],
                    system.min_safe_distance, 0)
                = check_mission_outcome(Candidate(m), Flights, system.min_safe_distance, 0)]_vars

====
